---- MODULE Spec2Model ----
(***************************************************************************)
(* Model of opstrat/op_quote.py: the business-day selector, the option     *)
(* chain fetcher, the ATM strike selector, the premium lookup, the iron    *)
(* butterfly plotter delegate and the top-level routine main.              *)
(*                                                                         *)
(* Dates are day numbers counted from Monday 2025-06-02 (day 0), so that   *)
(* date.weekday() is the day number modulo 7.  Prices and strikes are      *)
(* whole dollars.  The market-data provider (yfinance), the holiday        *)
(* calendar (holidays) and the plotter (opstrat) are the environment: the  *)
(* provider's answers are chosen nondeterministically from bounded sets,   *)
(* a provider call may also fault, and the plotter records its calls.      *)
(*                                                                         *)
(* The module is either run as a script (main, lines 156-157) or imported  *)
(* and its functions called one at a time (the Call* actions).             *)
(***************************************************************************)
EXTENDS Integers, Sequences, FiniteSets, TLC

VARIABLES
    pc,                     \* position of the run
    today,                  \* main: today
    target_date,            \* main: target_date
    available_expirations,  \* main: available_expirations
    valid_expirations,      \* main: valid_expirations
    df,                     \* main: df (the merged chain table)
    spot_price,             \* main: spot_price
    atm_strike,             \* main: atm_strike
    premiums,               \* main: the four premium_* locals
    error,                  \* the exception that ended the run, if any
    log,                    \* main: the stages entered so far, in order
    stdout,                 \* main: the lines printed so far (by label)
    plotter,                \* the calls op.basic_multi.multi_plotter received
    servedOptions,          \* provider: the last outcome of ticker.options (a tuple, or a fault)
    servedChain,            \* provider: the chain object as it was handed out
    chain,                  \* provider: the same chain object as it is now
    chainRequests,          \* provider: the dates ticker.option_chain was asked for
    call                    \* library use: the function called, its arguments, its result

vars == << pc, today, target_date, available_expirations, valid_expirations, df,
           spot_price, atm_strike, premiums, error, log, stdout, plotter,
           servedOptions, servedChain, chain, chainRequests, call >>

----------------------------------------------------------------------------
(* Bounds of the model *)

MaxStart == 18
MaxN == 3
MaxExp == 2
MaxRows == 2

----------------------------------------------------------------------------
(* Program constants *)

BusinessDaysAhead == 9
MainWidth == 10
premium_atm_call == 5
premium_atm_put == 5
premium_wing_call == 2
premium_wing_put == 2

TickerSymbol == "KR"
ExpirationDate == "2025-06-20"
DefaultCountry == "US"

----------------------------------------------------------------------------
(* Environment: calendar, holiday library, provider data *)

\* holidays.CountryHoliday(country), over the days of the model's calendar:
\* US: Juneteenth (Thu 2025-06-19) and Independence Day (Fri 2025-07-04);
\* DE: Whit Monday (Mon 2025-06-09).
Countries == {"US", "DE"}
CountryHoliday(country) ==
    IF country = "US" THEN {17, 32}
    ELSE IF country = "DE" THEN {7}
    ELSE {}

\* The expiration strings the provider may list, and the dates they denote.
ExpirationStrings == <<"2025-06-13", "2025-06-20", "2025-07-18">>
RequestedStrings == {"2025-06-13", "2025-06-20", "2025-07-18", "2099-01-01"}

\* datetime.strptime(date, "%Y-%m-%d").date()
StrpDate(s) ==
    CASE s = "2025-06-13" -> 11
      [] s = "2025-06-20" -> 18
      [] s = "2025-07-18" -> 46
      [] s = "2099-01-01" -> 26876

\* ticker.options: a tuple of expiration strings in ascending order.
RECURSIVE PickSorted(_, _)
PickSorted(S, i) ==
    IF i > Len(ExpirationStrings) THEN << >>
    ELSE IF ExpirationStrings[i] \in S
         THEN << ExpirationStrings[i] >> \o PickSorted(S, i + 1)
         ELSE PickSorted(S, i + 1)
ExpirationTuples ==
    { PickSorted(S, 1) :
        S \in { T \in SUBSET { ExpirationStrings[i] : i \in 1..Len(ExpirationStrings) } :
                  Cardinality(T) <= MaxExp } }

\* Rows of the provider's calls and puts tables (strike, lastPrice).
ProviderRows ==
    { [strike |-> 90,  lastPrice |-> 1],
      [strike |-> 100, lastPrice |-> 1],
      [strike |-> 100, lastPrice |-> 3],
      [strike |-> 110, lastPrice |-> 3] }
ProviderTables == UNION { [1..k -> ProviderRows] : k \in 0..MaxRows }

SpotPrices == {95, 101, 105}
TodayDays == {5, 9}
LookupStrikes == {80, 90, 100, 110, 120}
OptTypes == {"call", "put"}
CenterStrikes == {90, 100, 110}
Widths == {0, 5, 10}

----------------------------------------------------------------------------
(* Values *)

None == [isNone |-> TRUE, val |-> 0]
\* float(x): a Python float holding x
Float(x) == [isNone |-> FALSE, val |-> x]

NoError == [kind |-> "none", stage |-> "", msg |-> "", date |-> "", avail |-> << >>]
NoOptions == [ok |-> FALSE, val |-> << >>]
NoChain == [calls |-> << >>, puts |-> << >>]
NoPremiums == [atm_call |-> None, atm_put |-> None, wing_call |-> None, wing_put |-> None]
NoCall == [fn |-> "none", args |-> << >>, ret |-> << >>]

Range(s) == { s[i] : i \in 1..Len(s) }

----------------------------------------------------------------------------
(* get_nth_business_day, lines 9-21 *)

\* date.weekday(): 0 = Monday ... 6 = Sunday
Weekday(d) == d % 7

IsBusinessDay_IgnoresHolidays(d, us_holidays) == Weekday(d) < 5

\* line 19: current_date.weekday() < 5 and current_date not in us_holidays
IsBusinessDay(d, us_holidays) == Weekday(d) < 5 /\ d \notin us_holidays

\* lines 17-20: the while loop
RECURSIVE BusinessDayLoop(_, _, _, _)
BusinessDayLoop(current_date, business_days_count, n, us_holidays) ==
    IF business_days_count < n
    THEN LET next_date == current_date + 1
         IN  BusinessDayLoop(next_date,
                             IF IsBusinessDay(next_date, us_holidays)
                             THEN business_days_count + 1
                             ELSE business_days_count,
                             n, us_holidays)
    ELSE current_date

get_nth_business_day(start_date, n, country) ==
    BusinessDayLoop(start_date, 0, n, CountryHoliday(country))

----------------------------------------------------------------------------
(* get_option_chain, lines 24-41 *)

ExpirationAvailable_Unchecked(expiration_date, options) == TRUE

\* line 31: expiration_date in available_expirations
ExpirationAvailable(expiration_date, options) == expiration_date \in Range(options)

\* line 32: the ValueError and what its message holds
UnavailableExpiration(stage, expiration_date, options) ==
    [kind |-> "ValueError", stage |-> stage, msg |-> "not available",
     date |-> expiration_date, avail |-> options]

ProviderFault(stage) ==
    [kind |-> "ProviderError", stage |-> stage, msg |-> "provider", date |-> "", avail |-> << >>]

\* lines 36, 38: table['type'] = opt_type
Tagged(table, opt_type) ==
    [i \in 1..Len(table) |->
        [strike |-> table[i].strike, lastPrice |-> table[i].lastPrice, type |-> opt_type]]

\* lines 35-36, 37-38: the column is set on a copy, so that the provider's
\* table (source) stays as it was
CopyAndTag(table, opt_type) == [source |-> table, copy |-> Tagged(table, opt_type)]

Concat_PutsFirst(calls, puts) == puts \o calls

\* line 40: pd.concat([calls, puts], ignore_index=True)
Concat(calls, puts) == calls \o puts

\* lines 35-40 on the chain the provider returned
OptionsDf(provided) ==
    Concat(CopyAndTag(provided.calls, "call").copy, CopyAndTag(provided.puts, "put").copy)

\* the provider's chain object after lines 35-40
ChainAfter(provided) ==
    [calls |-> CopyAndTag(provided.calls, "call").source,
     puts |-> CopyAndTag(provided.puts, "put").source]

\* The provider's answers: a value, or a fault raised by the call.
OptionsAnswers ==
    { [ok |-> TRUE, val |-> t] : t \in ExpirationTuples } \cup { [ok |-> FALSE, val |-> << >>] }
ChainAnswers ==
    { [ok |-> TRUE, val |-> [calls |-> c, puts |-> p]] :
        c \in ProviderTables, p \in ProviderTables } \cup { [ok |-> FALSE, val |-> NoChain] }
SpotAnswers ==
    { [ok |-> TRUE, val |-> s] : s \in SpotPrices } \cup { [ok |-> FALSE, val |-> 0] }

\* lines 29-41 as a whole: what the call raises or returns, what it asks the
\* provider for, and the state it leaves the provider's chain object in.
get_option_chain(stage, expiration_date, options, chainAnswer) ==
    IF ~options.ok
    THEN [raised |-> TRUE, error |-> ProviderFault(stage), requests |-> << >>,
          df |-> << >>, served |-> NoChain, chain |-> NoChain]
    ELSE IF ~ExpirationAvailable(expiration_date, options.val)
    THEN [raised |-> TRUE, error |-> UnavailableExpiration(stage, expiration_date, options.val),
          requests |-> << >>, df |-> << >>, served |-> NoChain, chain |-> NoChain]
    ELSE IF ~chainAnswer.ok
    THEN [raised |-> TRUE, error |-> ProviderFault(stage), requests |-> << expiration_date >>,
          df |-> << >>, served |-> NoChain, chain |-> NoChain]
    ELSE [raised |-> FALSE, error |-> NoError, requests |-> << expiration_date >>,
          df |-> OptionsDf(chainAnswer.val),
          served |-> chainAnswer.val, chain |-> ChainAfter(chainAnswer.val)]

----------------------------------------------------------------------------
(* find_atm_strike, lines 43-48 *)

\* line 45: df['strike'].unique(), in order of first appearance
RECURSIVE UniqueFrom(_, _, _)
UniqueFrom(table, i, seen) ==
    IF i > Len(table) THEN << >>
    ELSE IF table[i].strike \in seen
         THEN UniqueFrom(table, i + 1, seen)
         ELSE << table[i].strike >> \o UniqueFrom(table, i + 1, seen \cup {table[i].strike})
Unique(table) == UniqueFrom(table, 1, {})

Key_Signed(x, spot) == x - spot

\* line 47: key=lambda x: abs(x - spot_price)
Key(x, spot) == IF x - spot < 0 THEN spot - x ELSE x - spot

Replaces_OnTie(candidate, best, spot) == Key(candidate, spot) <= Key(best, spot)

\* min(): a later element replaces the best so far only when its key is smaller
Replaces(candidate, best, spot) == Key(candidate, spot) < Key(best, spot)

\* line 47: min(strikes, key=...), scanning left to right
RECURSIVE MinFrom(_, _, _, _)
MinFrom(strikes, i, best, spot) ==
    IF i > Len(strikes) THEN best
    ELSE MinFrom(strikes, i + 1,
                 IF Replaces(strikes[i], best, spot) THEN strikes[i] ELSE best, spot)

\* defined for a table with at least one row; min() of no strikes raises
find_atm_strike(table, spot) ==
    LET strikes == Unique(table) IN MinFrom(strikes, 2, strikes[1], spot)

EmptyMin(stage) ==
    [kind |-> "ValueError", stage |-> stage, msg |-> "min() arg is an empty sequence",
     date |-> "", avail |-> << >>]

----------------------------------------------------------------------------
(* get_option_premium, lines 50-56 *)

\* line 52: the rows with this strike and this type, in table order
Matching(table, strike, opt_type) ==
    SelectSeq(table, LAMBDA r : r.strike = strike /\ r.type = opt_type)

get_option_premium_LastMatch(table, strike, opt_type) ==
    LET row == Matching(table, strike, opt_type)
    IN  IF Len(row) > 0 THEN Float(row[Len(row)].lastPrice) ELSE None

get_option_premium(table, strike, opt_type) ==
    LET row == Matching(table, strike, opt_type)
    IN  IF Len(row) > 0 THEN Float(row[1].lastPrice) ELSE None

----------------------------------------------------------------------------
(* plot_iron_butterfly, lines 58-76 *)

OpList_WingsSwapped(strike, width) ==
    << [op_type |-> "c", strike |-> strike, tr_type |-> "s", op_pr |-> premium_atm_call],
       [op_type |-> "p", strike |-> strike, tr_type |-> "s", op_pr |-> premium_atm_put],
       [op_type |-> "c", strike |-> strike - width, tr_type |-> "b", op_pr |-> premium_wing_call],
       [op_type |-> "p", strike |-> strike + width, tr_type |-> "b", op_pr |-> premium_wing_put] >>

\* lines 70-75
OpList(strike, width) ==
    << [op_type |-> "c", strike |-> strike, tr_type |-> "s", op_pr |-> premium_atm_call],
       [op_type |-> "p", strike |-> strike, tr_type |-> "s", op_pr |-> premium_atm_put],
       [op_type |-> "c", strike |-> strike + width, tr_type |-> "b", op_pr |-> premium_wing_call],
       [op_type |-> "p", strike |-> strike - width, tr_type |-> "b", op_pr |-> premium_wing_put] >>

PlotterCall_SpotFromWing(ticker_symbol, expiration_date, strike, width) ==
    [spot |-> strike + width, op_list |-> OpList(strike, width)]

\* line 76: op.basic_multi.multi_plotter(spot=atm_strike, op_list=op_list)
PlotterCall(ticker_symbol, expiration_date, strike, width) ==
    [spot |-> strike, op_list |-> OpList(strike, width)]

----------------------------------------------------------------------------
(* main, lines 78-153: one action per stage *)

Following_PlotBeforePremiums(stage) ==
    CASE stage = "date" -> "expirations"
      [] stage = "expirations" -> "chain"
      [] stage = "chain" -> "spot"
      [] stage = "spot" -> "atm"
      [] stage = "atm" -> "plot"
      [] stage = "premium" -> "format"
      [] stage = "format" -> "done"
      [] stage = "plot" -> "premium"

\* The statement order of main: the stage that runs after each stage returns.
Following(stage) ==
    CASE stage = "date" -> "expirations"
      [] stage = "expirations" -> "chain"
      [] stage = "chain" -> "spot"
      [] stage = "spot" -> "atm"
      [] stage = "atm" -> "premium"
      [] stage = "premium" -> "format"
      [] stage = "format" -> "plot"
      [] stage = "plot" -> "done"

FormatRaises_Never(premium) == FALSE

\* lines 142-145: f"{premium:.2f}" raises TypeError on None
FormatRaises(premium) == premium.isNone

FormatFault ==
    [kind |-> "TypeError", stage |-> "format",
     msg |-> "unsupported format string passed to NoneType.__format__",
     date |-> "", avail |-> << >>]

\* lines 101-104
ValidExpirations(options, target) ==
    SelectSeq(options, LAMBDA date : StrpDate(date) <= target)

\* An uncaught exception ends the run.
Raise(e) ==
    /\ pc' = "faulted"
    /\ error' = e

\* lines 91-93
MainDateSelect ==
    /\ pc = "idle"
    /\ \E now \in TodayDays :
        /\ today' = now
        /\ target_date' = get_nth_business_day(now, BusinessDaysAhead, DefaultCountry)
    /\ log' = Append(log, "date")
    /\ pc' = Following("date")
    /\ UNCHANGED << available_expirations, valid_expirations, df, spot_price, atm_strike,
                    premiums, error, stdout, plotter, servedOptions, servedChain, chain,
                    chainRequests, call >>

\* lines 96-110
MainListExpirations ==
    /\ pc = "expirations"
    /\ log' = Append(log, "expirations")
    /\ \E options \in OptionsAnswers :
        IF ~options.ok
        THEN /\ Raise(ProviderFault("expirations"))
             /\ servedOptions' = options
             /\ UNCHANGED << available_expirations, valid_expirations, stdout >>
        ELSE /\ servedOptions' = options
             /\ available_expirations' = options.val
             /\ valid_expirations' = ValidExpirations(options.val, target_date)
             /\ stdout' = stdout \o << "available", "valid" >>
             /\ IF ~ExpirationAvailable(ExpirationDate, options.val)
                THEN Raise(UnavailableExpiration("expirations", ExpirationDate, options.val))
                ELSE /\ pc' = Following("expirations")
                     /\ UNCHANGED error
    /\ UNCHANGED << today, target_date, df, spot_price, atm_strike, premiums, plotter,
                    servedChain, chain, chainRequests, call >>

\* line 113
MainGetOptionChain ==
    /\ pc = "chain"
    /\ log' = Append(log, "chain")
    /\ \E options \in OptionsAnswers, chainAnswer \in ChainAnswers :
        LET r == get_option_chain("chain", ExpirationDate, options, chainAnswer)
        IN  /\ servedOptions' = options
            /\ chainRequests' = chainRequests \o r.requests
            /\ servedChain' = r.served
            /\ chain' = r.chain
            /\ df' = r.df
            /\ IF r.raised
               THEN Raise(r.error)
               ELSE /\ pc' = Following("chain")
                    /\ UNCHANGED error
    /\ UNCHANGED << today, target_date, available_expirations, valid_expirations,
                    spot_price, atm_strike, premiums, stdout, plotter, call >>

\* lines 127-128
MainSpotPrice ==
    /\ pc = "spot"
    /\ log' = Append(log, "spot")
    /\ \E answer \in SpotAnswers :
        IF ~answer.ok
        THEN /\ Raise(ProviderFault("spot"))
             /\ UNCHANGED << spot_price, stdout >>
        ELSE /\ spot_price' = answer.val
             /\ stdout' = Append(stdout, "spot")
             /\ pc' = Following("spot")
             /\ UNCHANGED error
    /\ UNCHANGED << today, target_date, available_expirations, valid_expirations, df,
                    atm_strike, premiums, plotter, servedOptions, servedChain, chain,
                    chainRequests, call >>

\* lines 130-133
MainFindAtm ==
    /\ pc = "atm"
    /\ log' = Append(log, "atm")
    /\ IF Len(df) = 0
       THEN /\ Raise(EmptyMin("atm"))
            /\ UNCHANGED << atm_strike, stdout >>
       ELSE /\ atm_strike' = find_atm_strike(df, spot_price)
            /\ stdout' = stdout \o << "atm", "width" >>
            /\ pc' = Following("atm")
            /\ UNCHANGED error
    /\ UNCHANGED << today, target_date, available_expirations, valid_expirations, df,
                    spot_price, premiums, plotter, servedOptions, servedChain, chain,
                    chainRequests, call >>

\* lines 136-139
MainPremiums ==
    /\ pc = "premium"
    /\ log' = log \o << "premium", "premium", "premium", "premium" >>
    /\ premiums' =
        [atm_call  |-> get_option_premium(df, atm_strike, "call"),
         atm_put   |-> get_option_premium(df, atm_strike, "put"),
         wing_call |-> get_option_premium(df, atm_strike + MainWidth, "call"),
         wing_put  |-> get_option_premium(df, atm_strike - MainWidth, "put")]
    /\ pc' = Following("premium")
    /\ UNCHANGED << today, target_date, available_expirations, valid_expirations, df,
                    spot_price, atm_strike, error, stdout, plotter, servedOptions,
                    servedChain, chain, chainRequests, call >>

\* lines 141-145: the lines printed before the first premium that cannot be formatted
RECURSIVE PrintedFrom(_, _)
PrintedFrom(values, i) ==
    IF i > Len(values) \/ FormatRaises(values[i]) THEN << >>
    ELSE << "premium" >> \o PrintedFrom(values, i + 1)

MainFormat ==
    /\ pc = "format"
    /\ log' = Append(log, "format")
    /\ LET values == << premiums.atm_call, premiums.atm_put,
                        premiums.wing_call, premiums.wing_put >>
           printed == PrintedFrom(values, 1)
       IN  /\ stdout' = stdout \o << "header" >> \o printed
           /\ IF Len(printed) < Len(values)
              THEN Raise(FormatFault)
              ELSE /\ pc' = Following("format")
                   /\ UNCHANGED error
    /\ UNCHANGED << today, target_date, available_expirations, valid_expirations, df,
                    spot_price, atm_strike, premiums, plotter, servedOptions,
                    servedChain, chain, chainRequests, call >>

\* lines 148-153
MainPlot ==
    /\ pc = "plot"
    /\ log' = Append(log, "plot")
    /\ plotter' = Append(plotter, PlotterCall(TickerSymbol, ExpirationDate, atm_strike, MainWidth))
    /\ pc' = Following("plot")
    /\ UNCHANGED << today, target_date, available_expirations, valid_expirations, df,
                    spot_price, atm_strike, premiums, error, stdout, servedOptions,
                    servedChain, chain, chainRequests, call >>

----------------------------------------------------------------------------
(* The functions called one at a time by an importing program *)

mainLocals == << today, target_date, available_expirations, valid_expirations, df,
                 spot_price, atm_strike, premiums, log, stdout >>

CallGetNthBusinessDay ==
    /\ pc = "idle"
    /\ \E start_date \in 0..MaxStart, n \in 0..MaxN, country \in Countries :
        call' = [fn |-> "get_nth_business_day", args |-> << start_date, n, country >>,
                 ret |-> get_nth_business_day(start_date, n, country)]
    /\ pc' = "returned"
    /\ UNCHANGED << mainLocals, error, plotter, servedOptions, servedChain, chain,
                    chainRequests >>

CallGetOptionChain ==
    /\ pc = "idle"
    /\ \E expiration_date \in RequestedStrings,
          options \in OptionsAnswers, chainAnswer \in ChainAnswers :
        LET r == get_option_chain("get_option_chain", expiration_date, options, chainAnswer)
        IN  /\ call' = [fn |-> "get_option_chain",
                        args |-> << TickerSymbol, expiration_date >>, ret |-> r.df]
            /\ servedOptions' = options
            /\ chainRequests' = chainRequests \o r.requests
            /\ servedChain' = r.served
            /\ chain' = r.chain
            /\ error' = r.error
            /\ pc' = IF r.raised THEN "raised" ELSE "returned"
    /\ UNCHANGED << mainLocals, plotter >>

CallFindAtmStrike ==
    /\ pc = "idle"
    /\ \E calls \in ProviderTables, puts \in ProviderTables, spot \in SpotPrices :
        LET table == OptionsDf([calls |-> calls, puts |-> puts])
        IN  IF Len(table) = 0
            THEN /\ call' = [fn |-> "find_atm_strike", args |-> << table, spot >>, ret |-> 0]
                 /\ error' = EmptyMin("find_atm_strike")
                 /\ pc' = "raised"
            ELSE /\ call' = [fn |-> "find_atm_strike", args |-> << table, spot >>,
                             ret |-> find_atm_strike(table, spot)]
                 /\ pc' = "returned"
                 /\ UNCHANGED error
    /\ UNCHANGED << mainLocals, plotter, servedOptions, servedChain, chain, chainRequests >>

CallGetOptionPremium ==
    /\ pc = "idle"
    /\ \E calls \in ProviderTables, puts \in ProviderTables,
          strike \in LookupStrikes, opt_type \in OptTypes :
        LET table == OptionsDf([calls |-> calls, puts |-> puts])
        IN  call' = [fn |-> "get_option_premium", args |-> << table, strike, opt_type >>,
                     ret |-> get_option_premium(table, strike, opt_type)]
    /\ pc' = "returned"
    /\ UNCHANGED << mainLocals, error, plotter, servedOptions, servedChain, chain,
                    chainRequests >>

CallPlotIronButterfly ==
    /\ pc = "idle"
    /\ \E strike \in CenterStrikes, width \in Widths :
        /\ call' = [fn |-> "plot_iron_butterfly",
                    args |-> << TickerSymbol, ExpirationDate, strike, width >>, ret |-> 0]
        /\ plotter' = Append(plotter, PlotterCall(TickerSymbol, ExpirationDate, strike, width))
    /\ pc' = "returned"
    /\ UNCHANGED << mainLocals, error, servedOptions, servedChain, chain, chainRequests >>

----------------------------------------------------------------------------
(* Specification *)

Init ==
    /\ pc = "idle"
    /\ today = 0
    /\ target_date = 0
    /\ available_expirations = << >>
    /\ valid_expirations = << >>
    /\ df = << >>
    /\ spot_price = 0
    /\ atm_strike = 0
    /\ premiums = NoPremiums
    /\ error = NoError
    /\ log = << >>
    /\ stdout = << >>
    /\ plotter = << >>
    /\ servedOptions = NoOptions
    /\ servedChain = NoChain
    /\ chain = NoChain
    /\ chainRequests = << >>
    /\ call = NoCall

Next ==
    \/ MainDateSelect
    \/ MainListExpirations
    \/ MainGetOptionChain
    \/ MainSpotPrice
    \/ MainFindAtm
    \/ MainPremiums
    \/ MainFormat
    \/ MainPlot
    \/ CallGetNthBusinessDay
    \/ CallGetOptionChain
    \/ CallFindAtmStrike
    \/ CallGetOptionPremium
    \/ CallPlotIronButterfly

Spec == Init /\ [][Next]_vars

----------------------------------------------------------------------------
(* Properties *)

MainStages ==
    << "date", "expirations", "chain", "spot", "atm",
       "premium", "premium", "premium", "premium", "format", "plot" >>

InMain == log # << >>
Returned(fn) == call.fn = fn /\ pc = "returned"

\* C1, as stated: for every start date and every N >= 0 (N = 0 and weekend or
\* holiday starts included) the date get_nth_business_day returns is a weekday,
\* is not a holiday, and is reached by exactly N qualifying one-day advances.
C1_AsStated ==
    Returned("get_nth_business_day") =>
        LET start == call.args[1]
            n == call.args[2]
            hol == CountryHoliday(call.args[3])
            qualifying == { d \in (start + 1)..call.ret : d % 7 \notin {5, 6} /\ d \notin hol }
        IN  /\ call.ret % 7 \notin {5, 6}
            /\ call.ret \notin hol
            /\ Cardinality(qualifying) = n

\* C1, as amended: for every start date and every N >= 0 the returned date is
\* reached by exactly N qualifying one-day advances; for N >= 1 it is a weekday
\* that is not a holiday; for N = 0 it is the start date itself, whatever day
\* that is.  The target date of main is the case N = 9 from today.
C1_NthBusinessDay ==
    /\ Returned("get_nth_business_day") =>
        LET start == call.args[1]
            n == call.args[2]
            hol == CountryHoliday(call.args[3])
            qualifying == { d \in (start + 1)..call.ret : d % 7 \notin {5, 6} /\ d \notin hol }
        IN  /\ Cardinality(qualifying) = n
            /\ n >= 1 => (call.ret % 7 \notin {5, 6} /\ call.ret \notin hol)
            /\ n = 0 => call.ret = start
    /\ InMain =>
        LET hol == CountryHoliday("US")
            qualifying == { d \in (today + 1)..target_date : d % 7 \notin {5, 6} /\ d \notin hol }
        IN  /\ Cardinality(qualifying) = 9
            /\ target_date % 7 \notin {5, 6}
            /\ target_date \notin hol

\* A call with N >= 1 whose advance crosses a weekend and a holiday.
C1_Witness ==
    /\ Returned("get_nth_business_day")
    /\ call.args[2] >= 1
    /\ \E d \in (call.args[1] + 1)..call.ret : d \in CountryHoliday(call.args[3])
    /\ \E d \in (call.args[1] + 1)..call.ret : d % 7 \in {5, 6}

\* C2: when the requested expiration is not among the expirations the provider
\* lists, get_option_chain (and main's own check) fails with the
\* unavailable-expiration error, the error carries the requested date and the
\* whole list, and the provider's chain retrieval is never invoked; when the
\* date is listed, that error is not raised.
C2_UnavailableExpiration ==
    /\ (call.fn = "get_option_chain" /\ servedOptions.ok) =>
        LET requested == call.args[2]
            listed == { servedOptions.val[i] : i \in 1..Len(servedOptions.val) }
        IN  /\ requested \notin listed =>
                /\ pc = "raised"
                /\ error.kind = "ValueError"
                /\ error.msg = "not available"
                /\ error.date = requested
                /\ error.avail = servedOptions.val
                /\ chainRequests = << >>
            /\ requested \in listed => error.msg # "not available"
    /\ (InMain /\ servedOptions.ok) =>
        LET listed == { servedOptions.val[i] : i \in 1..Len(servedOptions.val) }
        IN  /\ "2025-06-20" \notin listed =>
                /\ pc = "faulted"
                /\ error.kind = "ValueError"
                /\ error.msg = "not available"
                /\ error.date = "2025-06-20"
                /\ error.avail = servedOptions.val
                /\ chainRequests = << >>
            /\ "2025-06-20" \in listed => error.msg # "not available"

\* get_option_chain raised for a date missing from a non-empty list.
C2_Witness ==
    /\ call.fn = "get_option_chain"
    /\ pc = "raised"
    /\ servedOptions.ok
    /\ Len(servedOptions.val) = 2
    /\ call.args[2] = "2099-01-01"
    /\ error.msg = "not available"

C4_PremiumLookup ==
    call.fn = "get_option_premium" =>
        LET table == call.args[1]
            matches == { i \in 1..Len(table) :
                            table[i].strike = call.args[2] /\ table[i].type = call.args[3] }
        IN  /\ pc = "returned"
            /\ error.kind = "none"
            /\ matches = {} => call.ret.isNone
            /\ matches # {} =>
                /\ ~call.ret.isNone
                /\ \E i \in matches :
                    /\ \A j \in matches : i <= j
                    /\ call.ret.val = table[i].lastPrice

\* Two rows match and carry different prices.
C4_WitnessFirstMatch ==
    /\ Returned("get_option_premium")
    /\ LET table == call.args[1]
           matches == { i \in 1..Len(table) :
                           table[i].strike = call.args[2] /\ table[i].type = call.args[3] }
       IN  \E i, j \in matches : i < j /\ table[i].lastPrice # table[j].lastPrice

\* No row matches.
C4_WitnessMissing ==
    /\ Returned("get_option_premium")
    /\ Len(call.args[1]) >= 2
    /\ call.ret.isNone

\* C5: plot_iron_butterfly hands the plotter exactly four legs, in the order
\* sell call at K, sell put at K, buy call at K + w, buy put at K - w, and
\* invokes the plotter exactly once per call.
C5_FourLegs ==
    /\ call.fn = "plot_iron_butterfly" =>
        /\ Len(plotter) = 1
        /\ LET K == call.args[3]
               w == call.args[4]
               legs == plotter[1].op_list
               shape(leg) == << leg.tr_type, leg.op_type, leg.strike >>
           IN  /\ Len(legs) = 4
               /\ shape(legs[1]) = << "s", "c", K >>
               /\ shape(legs[2]) = << "s", "p", K >>
               /\ shape(legs[3]) = << "b", "c", K + w >>
               /\ shape(legs[4]) = << "b", "p", K - w >>
    /\ (InMain /\ pc = "done") =>
        /\ Len(plotter) = 1
        /\ LET legs == plotter[1].op_list
               shape(leg) == << leg.tr_type, leg.op_type, leg.strike >>
           IN  /\ Len(legs) = 4
               /\ shape(legs[1]) = << "s", "c", atm_strike >>
               /\ shape(legs[2]) = << "s", "p", atm_strike >>
               /\ shape(legs[3]) = << "b", "c", atm_strike + 10 >>
               /\ shape(legs[4]) = << "b", "p", atm_strike - 10 >>

\* The spec's scenario: K = 100, w = 10.
C5_Witness ==
    /\ Returned("plot_iron_butterfly")
    /\ call.args[3] = 100
    /\ call.args[4] = 10
    /\ Len(plotter) = 1
    /\ plotter[1].op_list[3].strike = 110
    /\ plotter[1].op_list[4].strike = 90

\* C6: on a successful fetch the table get_option_chain returns is the
\* provider's call rows, in the provider's order and each tagged 'call',
\* followed by the provider's put rows, in the provider's order and each tagged
\* 'put', and nothing else; the provider's own tables are left as they were.
C6_CallsThenPuts ==
    LET merged(table) ==
            LET calls == servedChain.calls
                puts == servedChain.puts
            IN  /\ Len(table) = Len(calls) + Len(puts)
                /\ \A i \in 1..Len(calls) :
                    /\ table[i].type = "call"
                    /\ table[i].strike = calls[i].strike
                    /\ table[i].lastPrice = calls[i].lastPrice
                /\ \A j \in 1..Len(puts) :
                    /\ table[Len(calls) + j].type = "put"
                    /\ table[Len(calls) + j].strike = puts[j].strike
                    /\ table[Len(calls) + j].lastPrice = puts[j].lastPrice
                /\ \A i, j \in 1..Len(table) :
                    (table[i].type = "put" /\ table[j].type = "call") => j < i
                /\ chain = servedChain
    IN  /\ Returned("get_option_chain") => merged(call.ret)
        /\ (InMain /\ Len(log) >= 3 /\ error.stage # "chain") => merged(df)

\* A fetch that returned calls and puts, the tables differing.
C6_Witness ==
    /\ Returned("get_option_chain")
    /\ Len(servedChain.calls) = 2
    /\ Len(servedChain.puts) >= 1
    /\ servedChain.calls[1] # servedChain.calls[2]
    /\ servedChain.puts[1] # servedChain.calls[1]

\* C7: a run of main enters its stages in the one order date selection,
\* (expiration listing,) chain fetch, (spot price,) ATM selection, four premium
\* lookups, (formatting,) plotting, each at most once; the plotter is invoked
\* only after all the stages before it have completed; and the stage that
\* faults is the last stage entered.
C7_LinearStages ==
    InMain =>
        /\ Len(log) <= Len(MainStages)
        /\ \A i \in 1..Len(log) : log[i] = MainStages[i]
        /\ error.kind # "none" => (pc = "faulted" /\ error.stage = log[Len(log)])
        /\ pc = "faulted" => error.kind # "none"
        /\ Len(plotter) <= 1
        /\ Len(plotter) = 1 <=> (Len(log) = Len(MainStages) /\ log[Len(log)] = "plot")
        /\ Len(plotter) = 1 => (error.kind = "none" /\ pc = "done")

\* A run that went through every stage.
C7_Witness ==
    /\ pc = "done"
    /\ log = MainStages
    /\ Len(plotter) = 1

\* C8: in main a missing premium is not an error at lookup time, the four
\* lookups complete; but if one of the four leg premiums (ATM call, ATM put,
\* call at ATM + width, put at ATM - width) has no row in the table, the run
\* faults in the formatting step and the plotter is never invoked; the plotter
\* is reached only when all four premiums are numbers.
C8_MissingPremium ==
    LET noRow(strike, opt_type) ==
            ~ \E i \in 1..Len(df) : df[i].strike = strike /\ df[i].type = opt_type
        missing ==
            \/ noRow(atm_strike, "call")
            \/ noRow(atm_strike, "put")
            \/ noRow(atm_strike + 10, "call")
            \/ noRow(atm_strike - 10, "put")
    IN  InMain =>
            /\ pc = "format" => (error.kind = "none" /\ Len(log) = 9)
            /\ (Len(log) >= 10 /\ missing) =>
                /\ pc = "faulted"
                /\ error.kind = "TypeError"
                /\ error.stage = "format"
                /\ plotter = << >>
            /\ (Len(log) >= 10 /\ ~missing) => error.kind = "none"
            /\ Len(plotter) > 0 => ~missing

\* The first premiums are found and printed, the last one is missing.
C8_Witness ==
    /\ InMain
    /\ pc = "faulted"
    /\ error.kind = "TypeError"
    /\ ~premiums.atm_call.isNone
    /\ ~premiums.atm_put.isNone
    /\ ~premiums.wing_call.isNone
    /\ premiums.wing_put.isNone

C10_PlaceholderPremiums ==
    /\ \A i \in 1..Len(plotter) :
        LET legs == plotter[i].op_list
        IN  /\ << legs[1].op_pr, legs[2].op_pr, legs[3].op_pr, legs[4].op_pr >> = << 5, 5, 2, 2 >>
            /\ plotter[i].spot = legs[1].strike
    /\ (InMain /\ Len(plotter) > 0) =>
        plotter[1] =
            [spot |-> atm_strike,
             op_list |->
                << [op_type |-> "c", strike |-> atm_strike, tr_type |-> "s", op_pr |-> 5],
                   [op_type |-> "p", strike |-> atm_strike, tr_type |-> "s", op_pr |-> 5],
                   [op_type |-> "c", strike |-> atm_strike + 10, tr_type |-> "b", op_pr |-> 2],
                   [op_type |-> "p", strike |-> atm_strike - 10, tr_type |-> "b", op_pr |-> 2] >>]
    /\ call.fn = "plot_iron_butterfly" => plotter[1].spot = call.args[3]

\* A run of main that plotted although every premium looked up differs from
\* its placeholder and the spot price differs from the ATM strike.
C10_Witness ==
    /\ InMain
    /\ pc = "done"
    /\ Len(plotter) = 1
    /\ spot_price # atm_strike
    /\ premiums.atm_call.val # 5
    /\ premiums.atm_put.val # 5
    /\ premiums.wing_call.val # 2
    /\ premiums.wing_put.val # 2

====
